---- MODULE Spec2Model ----
(***************************************************************************)
(* Model of the Cardputer GPS track logger.                                *)
(*                                                                         *)
(*   "115200" : the sketch in src/unnamed/part_001                         *)
(*   "legacy" : the sketch in src/GPSSMACARD.ino                           *)
(*                                                                         *)
(* A String is a sequence of one-character strings.  A float (hdop) is the *)
(* decimal number its text denotes.  millis() is the absolute time `now`   *)
(* reduced modulo 2^32.  One Loop action is one iteration of loop(); what  *)
(* the iteration reads from the outside (the key, the bytes waiting in the *)
(* UART, the state TinyGPS++ reaches, whether SD operations succeed, how   *)
(* long the iteration lasts) are its inputs.                               *)
(***************************************************************************)
EXTENDS Integers, Sequences, FiniteSets, TLC

\* ------------------------------------------------------------- bounds
\* Loop iterations that last only the delay(10).
MaxShortLoops == 4
\* Loop iterations that last a whole sampling interval.
MaxPeriods == 3
\* ... and how many that last until millis() is close to 2^32
MaxWaits == 1
\* Iterations, and trackpoint writes that take time, in a behaviour of
\* the specification of the wrap of millis().
MaxWrapLoops == 7
\* delay(300) debounces of the legacy sketch.
MaxDebounces == 2
\* Completed lines a behaviour of the session specification receives.
MaxLines == 1
\* Completed lines a behaviour of the sentence specification receives.
MaxSentences == 2
\* Bytes a behaviour of the byte-stream specification receives, and the
\* most that wait in the UART at one loop iteration.
MaxFeed == 5
MaxChunk == 2
\* Direct calls of createGPX, writeGPXPoint and stopRecording in a
\* behaviour of the specification that calls them outside loop().
MaxCalls == 1

\* ------------------------------------------------- program constants
SampleMs == 3000
DelayMs == 10
DebounceMs == 300
\* The delay(200) that ends setup() of the 115200 sketch.
SetupDelayMs == 200
FixQualityField == 6
HdopField == 8
LegacyHdopField == 9
LastField == 9
MsPerSec == 1000
\* A uint32_t is held as two 16-bit halves: hi * TwoTo16 + lo.
TwoTo16 == 65536

Sketches == {"115200", "legacy"}

\* ------------------------------------------------------------ Strings
CR == "\r"
LF == "\n"
FF == "\f"
VT == ""
Digits == <<"0", "1", "2", "3", "4", "5", "6", "7", "8", "9">>
Uppers ==
  <<"A","B","C","D","E","F","G","H","I","J","K","L","M","N","O","P","Q","R",
    "S","T","U","V","W","X","Y","Z">>
Lowers ==
  <<"a","b","c","d","e","f","g","h","i","j","k","l","m","n","o","p","q","r",
    "s","t","u","v","w","x","y","z">>

IsDigit(c) == \E k \in 1..10 : Digits[k] = c
DigitVal(c) == (CHOOSE k \in 1..10 : Digits[k] = c) - 1
\* isspace() in the C locale.
IsSpace(c) == c \in {" ", "\t", LF, VT, FF, CR}
\* tolower() in the C locale.
Lower(c) ==
  IF \E k \in 1..26 : Uppers[k] = c
  THEN Lowers[CHOOSE k \in 1..26 : Uppers[k] = c]
  ELSE c
IsHexDigit(c) == IsDigit(c) \/ \E k \in 1..6 : Lowers[k] = Lower(c)
HexVal(c) ==
  IF IsDigit(c) THEN DigitVal(c)
  ELSE 9 + (CHOOSE k \in 1..6 : Lowers[k] = Lower(c))

\* String::substring(left, right): the characters [left, right), 0-based.
substring(s, left, right) ==
  LET lo == IF left > right THEN right ELSE left
      hi0 == IF left > right THEN left ELSE right
      hi == IF hi0 > Len(s) THEN Len(s) ELSE hi0
  IN IF lo >= Len(s) THEN <<>> ELSE SubSeq(s, lo + 1, hi)

\* String::startsWith(prefix)
startsWith(s, prefix) ==
  /\ Len(prefix) <= Len(s)
  /\ SubSeq(s, 1, Len(prefix)) = prefix

\* The least and the greatest number of a set of numbers that is not empty.
Least(S) == CHOOSE j \in S : \A k \in S : j <= k
Greatest(S) == CHOOSE j \in S : \A k \in S : j >= k

\* The first of the indices stop at or after i, or the index after the end
\* of s when there is none.
FirstOf(stop, s, i) ==
  IF stop # {} THEN Least(stop) ELSE IF i > Len(s) THEN i ELSE Len(s) + 1

\* The index (1-based) of the first character at or after i that is no space.
SkipSpaces(s, i) == FirstOf({j \in i..Len(s) : ~IsSpace(s[j])}, s, i)

IsMinus(s, i) == i <= Len(s) /\ s[i] = "-"
AfterSign(s, i) == IF i <= Len(s) /\ s[i] \in {"-", "+"} THEN i + 1 ELSE i

\* The index just after the run of digits that starts at i.
DigitEnd(s, i) == FirstOf({j \in i..Len(s) : ~IsDigit(s[j])}, s, i)

\* The index just after the run of zeros that starts at i.
ZeroEnd(s, i) == FirstOf({j \in i..Len(s) : s[j] # "0"}, s, i)

\* ------------------------------------------------------ atol (toInt)
\* A long has 32 bits: LONG_MAX, and LONG_MIN = -LONG_MAX - 1.
LongMax == 2147483647
LongMin == 0 - LongMax - 1

\* The value of the run of digits that starts at i, continuing from acc;
\* a value beyond LONG_MAX is LONG_MAX, whatever digits follow.
RECURSIVE DigitRun(_, _, _)
DigitRun(s, i, acc) ==
  IF i <= Len(s) /\ IsDigit(s[i])
  THEN IF acc > (LongMax - DigitVal(s[i])) \div 10
       THEN LongMax
       ELSE DigitRun(s, i + 1, 10 * acc + DigitVal(s[i]))
  ELSE acc

\* The same after a minus sign, counted downwards from acc <= 0; a value
\* below LONG_MIN is LONG_MIN.
RECURSIVE DigitRunNeg(_, _, _)
DigitRunNeg(s, i, acc) ==
  IF i <= Len(s) /\ IsDigit(s[i])
  THEN IF acc < (LongMin + DigitVal(s[i]) + 9) \div 10
       THEN LongMin
       ELSE DigitRunNeg(s, i + 1, 10 * acc - DigitVal(s[i]))
  ELSE acc

\* The number at i: a sign, then digits, of which the zeros in front add
\* nothing.
IntFrom(s, i) ==
  IF IsMinus(s, i) THEN DigitRunNeg(s, ZeroEnd(s, AfterSign(s, i)), 0)
                   ELSE DigitRun(s, ZeroEnd(s, AfterSign(s, i)), 0)

\* String::toInt(): atol of the text; leading spaces, a sign, then digits,
\* stopping at the first other character; 0 when there is no digit.
toInt(s) == IntFrom(s, SkipSpaces(s, 1))

\* ---------------------------------------------------- atof (toFloat)
\* A float is [cls, neg, digits, exp]: not a number ("nan"), infinite
\* ("inf"), or the number 0.d1d2..dn * 10^exp ("num") with d1 and dn not 0;
\* zero has no digits and exp 0.  neg is the sign.  toFloat() is
\* float(atof(text)): the number the text denotes is rounded to a double
\* (53 bits) and the double to a float (24 bits, steps of 2^-149 at
\* least), to the nearest with ties to even both times.
FloatZero == [cls |-> "num", neg |-> FALSE, digits |-> <<>>, exp |-> 0]
FloatNaN == [cls |-> "nan", neg |-> FALSE, digits |-> <<>>, exp |-> 0]
FloatInf(neg) == [cls |-> "inf", neg |-> neg, digits |-> <<>>, exp |-> 0]

\* f > 0.0f
FloatPositive(f) ==
  /\ f.cls # "nan"
  /\ ~f.neg
  /\ f.cls = "inf" \/ f.digits # <<>>

\* 0.a < 0.b for two sequences of digits.
FracLess(a, b) ==
  LET n == IF Len(a) > Len(b) THEN Len(a) ELSE Len(b)
      A(k) == IF k <= Len(a) THEN a[k] ELSE 0
      B(k) == IF k <= Len(b) THEN b[k] ELSE 0
  IN \E k \in 1..n : A(k) < B(k) /\ \A m \in 1..(k - 1) : A(m) = B(m)

\* The number of zeros ds begins with, and the number it ends with.
LeadingZeros(ds) ==
  LET other == {j \in 1..Len(ds) : ds[j] # 0}
  IN IF other = {} THEN Len(ds) ELSE Least(other) - 1

TrailingZeros(ds) ==
  LET other == {j \in 1..Len(ds) : ds[j] # 0}
  IN IF other = {} THEN Len(ds) ELSE Len(ds) - Greatest(other)

\* ds without the zeros it ends with.
Trimmed(ds) == SubSeq(ds, 1, Len(ds) - TrailingZeros(ds))

\* 0.ds * 10^e without the zeros ds begins and ends with, of which lead
\* are in front.
Stripped(ds, e, lead) ==
  [digits |-> Trimmed(SubSeq(ds, lead + 1, Len(ds))), exp |-> e - lead]

Normal(ds, e) == Stripped(ds, e, LeadingZeros(ds))

\* The digits of s at [i, e), as numbers.
DigitsAt(s, i, e) == [k \in 1..(e - i) |-> DigitVal(s[i + k - 1])]
HexDigitsAt(s, i, e) == [k \in 1..(e - i) |-> HexVal(s[i + k - 1])]

\* The index just after the run of hexadecimal digits that starts at i.
HexEnd(s, i) == FirstOf({j \in i..Len(s) : ~IsHexDigit(s[j])}, s, i)

\* The exponent at index k: the letter mark, a sign, digits; 0 when there
\* is none.  The digits of s stand for a number between 16^-Len(s) and
\* 16^Len(s), so an exponent beyond 4 * Len(s) + 2000 makes the number
\* infinite or zero as that bound itself does, and is read as that bound.
ExpAt(s, k, mark) ==
  IF k <= Len(s) /\ Lower(s[k]) = mark
       /\ AfterSign(s, k + 1) <= Len(s) /\ IsDigit(s[AfterSign(s, k + 1)])
  THEN LET v == DigitRun(s, ZeroEnd(s, AfterSign(s, k + 1)), 0)
           most == 4 * Len(s) + 2000
           c == IF v > most THEN most ELSE v
       IN IF IsMinus(s, k + 1) THEN 0 - c ELSE c
  ELSE 0

\* The digits (most significant first) of the number n >= 0.
RECURSIVE NumberDigits(_)
NumberDigits(n) ==
  IF n < 10 THEN <<n>> ELSE Append(NumberDigits(n \div 10), n % 10)

\* The digits of n * m + a, for the number n with the digits ds, m >= 0
\* and a >= 0: as many digits as ds has, and the carry out of them.  The
\* lower half of the digits first, then the upper half with its carry
\* (the test of the carry makes TLC work the lower half out before it goes
\* on).
RECURSIVE MulDigits(_, _, _)
MulUpper(ds, m, low) ==
  IF low.carry >= 0
  THEN LET high == MulDigits(SubSeq(ds, 1, Len(ds) \div 2), m, low.carry)
       IN [digits |-> high.digits \o low.digits, carry |-> high.carry]
  ELSE low

MulDigits(ds, m, a) ==
  IF ds = <<>> THEN [digits |-> <<>>, carry |-> a]
  ELSE IF Len(ds) = 1
       THEN [digits |-> <<(ds[1] * m + a) % 10>>,
             carry |-> (ds[1] * m + a) \div 10]
       ELSE MulUpper(ds, m,
                     MulDigits(SubSeq(ds, (Len(ds) \div 2) + 1, Len(ds)), m, a))

MulAdd(ds, m, a) ==
  LET r == MulDigits(ds, m, a)
  IN (IF r.carry = 0 THEN <<>> ELSE NumberDigits(r.carry)) \o r.digits

\* The number with the digits ds to the base b, after acc.
RECURSIVE NumberOf(_, _, _, _)
NumberOf(ds, b, k, acc) ==
  IF k > Len(ds) THEN acc ELSE NumberOf(ds, b, k + 1, b * acc + ds[k])

\* m^n.
RECURSIVE Power(_, _)
Power(m, n) == IF n = 0 THEN 1 ELSE m * Power(m, n - 1)

\* The digits of the number whose hexadecimal digits are hs, after acc:
\* six hexadecimal digits at a time.
RECURSIVE FromHex(_, _, _)
FromHex(hs, k, acc) ==
  IF k > Len(hs) THEN acc
  ELSE LET e == IF k + 5 > Len(hs) THEN Len(hs) ELSE k + 5
           v == NumberOf(SubSeq(hs, k, e), 16, 1, 0)
       IN IF acc = <<>> /\ v = 0 THEN FromHex(hs, e + 1, acc)
          ELSE FromHex(hs, e + 1, MulAdd(acc, Power(16, e - k + 1), v))

\* The digits of ds * m^n, for m = 2 or m = 5: as many factors m at a time
\* as ten times their product fits 31 bits.
RECURSIVE Times(_, _, _)
Times(ds, m, n) ==
  IF n = 0 \/ ds = <<>> THEN ds
  ELSE LET most == IF m = 2 THEN 27 ELSE 11
           c == IF n > most THEN most ELSE n
       IN Times(MulAdd(ds, Power(m, c), 0), m, n - c)

\* The number of bits of n.
RECURSIVE BitLen(_)
BitLen(n) == IF n = 0 THEN 0 ELSE 1 + BitLen(n \div 2)

\* A float has 24 bits: its steps are counted below 2^24.
TwoTo24 == 16777216

\* x / 2^q, exactly: dividing by 2 is multiplying by 5 and shifting the
\* point.
Scaled(x, q) ==
  LET n == Times(x.digits, IF q >= 0 THEN 5 ELSE 2, IF q >= 0 THEN q ELSE 0 - q)
  IN [digits |-> n,
      exp |-> x.exp - Len(x.digits) + Len(n) - (IF q >= 0 THEN q ELSE 0)]

\* The whole part of y, as far as 2^24, and the digits after its point
\* (without the zeros they end with).
Whole(y) ==
  IF y.exp <= 0 THEN 0
  ELSE IF y.exp > 8 THEN TwoTo24
  ELSE LET v == NumberOf([k \in 1..y.exp |->
                            IF k <= Len(y.digits) THEN y.digits[k] ELSE 0],
                         10, 1, 0)
       IN IF v > TwoTo24 THEN TwoTo24 ELSE v

Part(y) ==
  Trimmed(IF y.exp <= 0 THEN [k \in 1..(0 - y.exp) |-> 0] \o y.digits
          ELSE SubSeq(y.digits, y.exp + 1, Len(y.digits)))

\* The step 2^q of the floats about x: the least q >= -149, from q on,
\* that leaves fewer than 2^24 steps in x; with it, the steps in x and
\* the part of a step left over.  y is x / 2^q.
RECURSIVE FloatStep(_, _)
StepAt(x, q, y) ==
  LET whole == Whole(y)
  IN IF whole < TwoTo24 THEN [q |-> q, whole |-> whole, part |-> Part(y)]
     ELSE FloatStep(x, q + 1)

FloatStep(x, q) == StepAt(x, q, Scaled(x, q))

\* A step not above that of x, which is at least 10^(x.exp - 1):
\* 3.322 > log2(10), and a float has 24 bits.
FirstStep(x) ==
  IF ((3322 * (x.exp - 1)) \div 1000) - 24 < 0 - 149 THEN 0 - 149
  ELSE ((3322 * (x.exp - 1)) \div 1000) - 24

\* The digits of 1/2 + 2^-j after the point, for j >= 4; p are the digits
\* of 5^j.
HalfAnd(j, p) ==
  [k \in 1..j |-> IF k = 1 THEN 5
                  ELSE IF k <= j - Len(p) THEN 0
                  ELSE p[k - (j - Len(p))]]

AboveHalf(j) == HalfAnd(j, Times(<<1>>, 5, j))

\* The number ds * 2^b, exactly.
Exact(neg, ds, b) ==
  LET n == Times(ds, IF b >= 0 THEN 2 ELSE 5, IF b >= 0 THEN b ELSE 0 - b)
      x == Normal(n, IF b >= 0 THEN Len(n) ELSE Len(n) + b)
  IN [cls |-> "num", neg |-> neg, digits |-> x.digits, exp |-> x.exp]

\* 1 - part, less one unit of the last of its digits, of which there are
\* n at least.
Complement(part, n) ==
  [k \in 1..(IF Len(part) > n THEN Len(part) ELSE n) |->
     9 - (IF k <= Len(part) THEN part[k] ELSE 0)]

\* float(double(x)) for x between the floats m0 * 2^q and (m0 + 1) * 2^q,
\* part of a step above the first, in steps 2^q.  The double of x is the
\* middle of the two floats when x is no further from the middle than
\* half a step of the doubles there, 2^-j steps of the floats, and the
\* float of the middle is the even one of the two.  Elsewhere the float is
\* the nearer one.  above is 1/2 + 2^-j.
Nearest(m0, part, above) ==
  IF FracLess(above, part) THEN m0 + 1
  ELSE IF ~FracLess(Complement(part, Len(above)), above) THEN m0
  ELSE IF m0 % 2 = 0 THEN m0 ELSE m0 + 1

\* m steps 2^q as a float: 2^128 is infinite.
Steps(neg, q, m) ==
  IF m = 0 THEN [FloatZero EXCEPT !.neg = neg]
  ELSE IF q = 104 /\ m = TwoTo24 THEN FloatInf(neg)
  ELSE Exact(neg, NumberDigits(m), q)

\* float(double(x)) for x > 0 with the sign neg, at the step at.  A whole
\* number of steps is a float already.  A double has 53 bits, so that
\* about the middle between two floats of up to b bits each, which has
\* b + 1 bits, half a step of the doubles is 2^-(54 - b) steps of the
\* floats.
RoundedAt(neg, x, at) ==
  IF at.q > 104 THEN FloatInf(neg)
  ELSE IF at.part = <<>>
       THEN [cls |-> "num", neg |-> neg, digits |-> x.digits, exp |-> x.exp]
  ELSE Steps(neg, at.q,
             Nearest(at.whole, at.part,
                     AboveHalf(55 - BitLen(2 * at.whole + 1))))

Rounded(neg, x) == RoundedAt(neg, x, FloatStep(x, FirstStep(x)))

\* The float of 0.ds * 10^e with the sign neg: 10^39 is beyond the floats
\* and 10^-46 below them.
Decimal(neg, ds, e) ==
  LET x == Normal(ds, e)
  IN IF x.digits = <<>> THEN [FloatZero EXCEPT !.neg = neg]
     ELSE IF x.exp > 39 THEN FloatInf(neg)
     ELSE IF x.exp < 0 - 45 THEN [FloatZero EXCEPT !.neg = neg]
     ELSE Rounded(neg, x)

\* The float of ds * 2^b: beyond 2^160 it is infinite, and below
\* 2^-200 / 10^Len(ds) zero, whatever the digits.
Binary(neg, ds, b) ==
  IF ds = <<>> THEN [FloatZero EXCEPT !.neg = neg]
  ELSE IF b > 160 THEN FloatInf(neg)
  ELSE IF 0 - b > 200 + 4 * Len(ds) THEN [FloatZero EXCEPT !.neg = neg]
  ELSE LET n == Times(ds, IF b >= 0 THEN 2 ELSE 5, IF b >= 0 THEN b ELSE 0 - b)
       IN Decimal(neg, n, IF b >= 0 THEN Len(n) ELSE Len(n) + b)

\* Whether s holds the word w (in small letters) at index j, in either case.
HasWord(s, j, w) ==
  /\ j + Len(w) - 1 <= Len(s)
  /\ \A k \in 1..Len(w) : Lower(s[j + k - 1]) = w[k]

\* A hexadecimal number at index j: "0x", digits, a point, digits, of
\* which one at least, and an exponent of 2 after "p".
IsHexAt(s, j) ==
  /\ HasWord(s, j, <<"0", "x">>)
  /\ LET h1 == HexEnd(s, j + 2)
     IN h1 > j + 2 \/ (h1 <= Len(s) /\ s[h1] = "." /\ HexEnd(s, h1 + 1) > h1 + 1)

HexAt(s, j, neg) ==
  LET h1 == HexEnd(s, j + 2)
      point == h1 <= Len(s) /\ s[h1] = "."
      h2 == IF point THEN HexEnd(s, h1 + 1) ELSE h1
      whole == HexDigitsAt(s, j + 2, h1)
      frac == IF point THEN HexDigitsAt(s, h1 + 1, h2) ELSE <<>>
  IN Binary(neg, FromHex(whole \o frac, 1, <<>>),
            ExpAt(s, h2, "p") - 4 * Len(frac))

\* The fraction that follows index k when s[k] is the decimal point: its
\* digits.
FracAt(s, k) ==
  IF k <= Len(s) /\ s[k] = "."
  THEN DigitsAt(s, k + 1, DigitEnd(s, k + 1))
  ELSE <<>>

\* The index just after the fraction.
FracEnd(s, k) ==
  IF k <= Len(s) /\ s[k] = "." THEN DigitEnd(s, k + 1) ELSE k

\* The number at index j, after the sign neg: a hexadecimal number; or
\* digits, a point, digits, of which one at least, and an exponent of 10
\* after "e"; or "inf", "infinity", "nan"; zero when there is none.
FloatAt(s, j, neg) ==
  LET e1 == DigitEnd(s, j)
      whole == DigitsAt(s, j, e1)
      frac == FracAt(s, e1)
  IN IF IsHexAt(s, j) THEN HexAt(s, j, neg)
     ELSE IF whole \o frac # <<>>
          THEN Decimal(neg, whole \o frac,
                       Len(whole) + ExpAt(s, FracEnd(s, e1), "e"))
     ELSE IF HasWord(s, j, <<"i", "n", "f">>) THEN FloatInf(neg)
     ELSE IF HasWord(s, j, <<"n", "a", "n">>) THEN FloatNaN
     ELSE FloatZero

FloatFrom(s, i) == FloatAt(s, AfterSign(s, i), IsMinus(s, i))

\* String::toFloat(): atof of the text, as a float: leading spaces, a sign
\* and a number; zero when there is no number.
toFloat(s) == FloatFrom(s, SkipSpaces(s, 1))

\* ----------------------------------------------------------- parseGGA
\* Whether gga[i] (0-based) is one of the two delimiters.
IsDelimiter(gga, i) == gga[i + 1] = "," \/ gga[i + 1] = "*"

\* The first index at or after i (0-based) that holds a delimiter;
\* gga.length() when there is none.  The for loop does nothing at the
\* indices in between.
NextDelimiter(gga, i) ==
  LET at == {j \in i..(Len(gga) - 1) : IsDelimiter(gga, j)}
  IN IF at = {} THEN Len(gga)
     ELSE CHOOSE j \in at : \A k \in at : j <= k

\* The body of the for loop at the delimiter at index i: field is the
\* number of the field that ends there, value its text, q the values so far.
FieldValue(field, i, value, q, hdopAt) ==
  [field |-> field,
   lastIndex |-> i + 1,
   fixQuality |-> IF field = FixQualityField THEN toInt(value)
                                             ELSE q.fixQuality,
   hdop |-> IF field = hdopAt THEN toFloat(value) ELSE q.hdop]

\* The for loop of parseGGA from the delimiter at index i (0-based) on (the
\* loop ends when i is gga.length()): q is [field, lastIndex, fixQuality,
\* hdop]; hdopAt is the field read as HDOP.
RECURSIVE ScanGGA(_, _, _, _)
\* ... after the body ran at index i and left q2: break, or go on.
ScanOn(gga, i, q2, hdopAt) ==
  IF q2.field > LastField THEN q2
  ELSE ScanGGA(gga, NextDelimiter(gga, i + 1), q2, hdopAt)

ScanGGA(gga, i, q, hdopAt) ==
  IF i >= Len(gga) THEN q
  ELSE ScanOn(gga, i,
              FieldValue(q.field + 1, i, substring(gga, q.lastIndex, i),
                         q, hdopAt),
              hdopAt)

\* A parseGGA that sets both values to 1 before it scans.
parseGGAFromOne(gga) ==
  ScanGGA(gga, NextDelimiter(gga, 0),
          [field |-> 0, lastIndex |-> 0, fixQuality |-> 1,
           hdop |-> Decimal(FALSE, <<1>>, 1)],
          HdopField)

\* parseGGA of the 115200 sketch: both values are reset, then scanned.
parseGGA(gga) ==
  ScanGGA(gga, NextDelimiter(gga, 0),
          [field |-> 0, lastIndex |-> 0, fixQuality |-> 0, hdop |-> FloatZero],
          HdopField)

\* parseGGA of the legacy sketch: no reset (fq, hd are the globals' values).
parseGGALegacy(gga, fq, hd) ==
  ScanGGA(gga, NextDelimiter(gga, 0),
          [field |-> 0, lastIndex |-> 0, fixQuality |-> fq, hdop |-> hd],
          LegacyHdopField)

\* ---------------------------------------------------------- sentences
SentenceGGA ==
  <<"$","G","P","G","G","A",",","1","2","3","5","1","9",",","4","8","0","7",
    ".","0","3","8",",","N",",","0","1","1","3","1",".","0","0","0",",","E",
    ",","1",",","0","8",",","0",".","9",",","5","4","5",".","4",",","M",",",
    "4","6",".","9",",","M",",",",","*","4","7">>

\* A second GGA sentence (talker GN), fix quality 2, and a line of another type.
SentenceGN ==
  <<"$","G","N","G","G","A",",",",",",",",",",",",","2",",","5",",","1",".",
    "5","*">>
SentenceRMC == <<"$","G","P","R","M","C",",","1",",","A">>
\* A GGA sentence with fewer than 6 delimiters.
SentenceShort == <<"$","G","P","G","G","A",",","1",",","2">>
\* A GGA sentence with a number in every field.
SentenceDense ==
  <<"$","G","P","G","G","A",",","1",",","2",",","3",",","4",",","7",",","6",
    ",","2",".","5",",","9">>
\* A GGA sentence of another talker, with a number in every field.
SentenceGL ==
  <<"$","G","L","G","G","A",",","1",",","2",",","3",",","4",",","5",",","4",
    ",","1",".","5",",","9">>
\* An empty line.
SentenceEmpty == <<>>

PrefixGP == <<"$","G","P","G","G","A">>
PrefixGN == <<"$","G","N","G","G","A">>

\* --------------------------------------------------- uint32_t millis
Zero32 == [hi |-> 0, lo |-> 0]

\* n ms as a uint32_t, for 0 <= n < 2^16.
Ms32(n) == [hi |-> 0, lo |-> n]

\* 2^32 - 6020 ms: from millis() = 0 until two sampling intervals and two
\* delay(10) before millis() wraps.
UntilWrap == [hi |-> TwoTo16 - 1, lo |-> TwoTo16 - 2 * (SampleMs + DelayMs)]

\* t + d for 0 <= d < 2^16, modulo 2^32.
Add32(t, d) ==
  LET l == t.lo + d
  IN [hi |-> (t.hi + (l \div TwoTo16)) % TwoTo16, lo |-> l % TwoTo16]

\* a + b modulo 2^32 (unsigned addition).
Plus32(a, b) ==
  LET l == a.lo + b.lo
  IN [hi |-> (a.hi + b.hi + (l \div TwoTo16)) % TwoTo16, lo |-> l % TwoTo16]

\* A subtraction that gives 0 when a is below b, without the wrap-around.
Sub32Clamped(a, b) ==
  LET l == a.lo - b.lo
      borrow == IF l < 0 THEN 1 ELSE 0
  IN IF a.hi - b.hi - borrow < 0
     THEN [hi |-> 0, lo |-> 0]
     ELSE [hi |-> a.hi - b.hi - borrow, lo |-> (l + TwoTo16) % TwoTo16]

\* a - b modulo 2^32 (unsigned subtraction).
Sub32(a, b) ==
  LET l == a.lo - b.lo
      borrow == IF l < 0 THEN 1 ELSE 0
  IN [hi |-> (a.hi - b.hi - borrow + TwoTo16) % TwoTo16,
      lo |-> (l + TwoTo16) % TwoTo16]

\* t > n for 0 <= n < 2^16.
Gt32(t, n) == t.hi > 0 \/ t.lo > n

\* t / 1000: millis() / 1000 (hi * 65536 = hi * 65000 + hi * 536).
Secs32(t) ==
  t.hi * (TwoTo16 \div MsPerSec)
    + ((t.hi * (TwoTo16 % MsPerSec) + t.lo) \div MsPerSec)

\* ------------------------------------------------------- the GPX file
\* The writes the sketch makes, one element per print/println/printf call;
\* a value read from TinyGPS++ is written as %name.
Preamble ==
  <<"<?xml version='1.0' encoding='UTF-8'?>\n",
    "<gpx version='1.1'>\n",
    "<trk><trkseg>\n">>

Closing == <<"</trkseg></trk></gpx>\n">>

TrkptOpen == <<"<trkpt lat=\"", "%lat", "\" lon=\"", "%lng", "\">\n">>
TrkptClose == <<"</trkpt>\n">>

Element(open, value, close) == <<open, value, close>>

\* writeGPXPoint printing the <hdop> element for any hdop that is not
\* negative.
TrackPointAnyHdop(g, hd) ==
  TrkptOpen
    \o <<"<time>">>
    \o (IF g.date /\ g.time THEN <<"%04d-%02d-%02dT%02d:%02d:%02dZ">> ELSE <<>>)
    \o <<"</time>\n">>
    \o (IF g.altitude THEN Element("<ele>", "%meters", "</ele>\n") ELSE <<>>)
    \o (IF g.speed THEN Element("<speed>", "%kmph", "</speed>\n") ELSE <<>>)
    \o (IF g.course THEN Element("<course>", "%deg", "</course>\n") ELSE <<>>)
    \o (IF ~hd.neg THEN Element("<hdop>", "%hdop", "</hdop>\n") ELSE <<>>)
    \o TrkptClose

\* What writeGPXPoint prints for the TinyGPS++ state g and the global hdop.
TrackPoint(g, hd) ==
  TrkptOpen
    \o <<"<time>">>
    \o (IF g.date /\ g.time THEN <<"%04d-%02d-%02dT%02d:%02d:%02dZ">> ELSE <<>>)
    \o <<"</time>\n">>
    \o (IF g.altitude THEN Element("<ele>", "%meters", "</ele>\n") ELSE <<>>)
    \o (IF g.speed THEN Element("<speed>", "%kmph", "</speed>\n") ELSE <<>>)
    \o (IF g.course THEN Element("<course>", "%deg", "</course>\n") ELSE <<>>)
    \o (IF FloatPositive(hd) THEN Element("<hdop>", "%hdop", "</hdop>\n") ELSE <<>>)
    \o TrkptClose

\* The name createGPX derives: "/track_" [Y-M-D_] millis()/1000 ".gpx".
TrackName(g, ms) == [dated |-> g.date, secs |-> Secs32(ms)]

\* ------------------------------------------------ session operations
\* A session value s holds the globals isRecording, gpxFile (whether the
\* handle tests true) and filename, and what was observed of the SD card:
\* writes (the write calls made through the handle opened last), opened
\* (the names SD.open opened, in order), flushed (how many of the writes
\* were made before the latest flush() or close() of that handle),
\* ioFailed (a write call of the current operation failed) and openFailed
\* (the handle SD.open returned in the current operation tested false).

\* A createGPX without the test of isRecording.
createGPXUnguarded(s, g, ms, openOk, ioOk) ==
  LET name == TrackName(g, ms)
  IN IF openOk
     THEN [s EXCEPT !.filename = name,
                    !.gpxFile = TRUE,
                    !.writes = Preamble,
                    !.opened = Append(@, name),
                    !.ioFailed = @ \/ ~ioOk,
                    !.isRecording = TRUE]
     ELSE [s EXCEPT !.filename = name, !.gpxFile = FALSE,
                    !.openFailed = TRUE]

\* A createGPX that sets isRecording whether or not SD.open succeeded.
createGPXAlwaysActive(s, g, ms, openOk, ioOk) ==
  IF s.isRecording THEN s
  ELSE LET name == TrackName(g, ms)
       IN IF openOk
          THEN [s EXCEPT !.filename = name,
                         !.gpxFile = TRUE,
                         !.writes = Preamble,
                         !.flushed = 0,
                         !.opened = Append(@, name),
                         !.ioFailed = @ \/ ~ioOk,
                         !.isRecording = TRUE]
          ELSE [s EXCEPT !.filename = name,
                         !.gpxFile = FALSE,
                         !.openFailed = TRUE,
                         !.isRecording = TRUE]

\* createGPX of the 115200 sketch.
createGPX(s, g, ms, openOk, ioOk) ==
  IF s.isRecording THEN s
  ELSE LET name == TrackName(g, ms)
       IN IF openOk
          THEN [s EXCEPT !.filename = name,
                         !.gpxFile = TRUE,
                         !.writes = Preamble,
                         !.flushed = 0,
                         !.opened = Append(@, name),
                         !.ioFailed = @ \/ ~ioOk,
                         !.isRecording = TRUE]
          ELSE [s EXCEPT !.filename = name, !.gpxFile = FALSE,
                         !.openFailed = TRUE]

\* createGPX of the legacy sketch.
createGPXLegacy(s, g, ms, openOk, ioOk) ==
  IF ~s.isRecording
  THEN LET name == TrackName(g, ms)
       IN IF openOk
          THEN [s EXCEPT !.filename = name,
                         !.gpxFile = TRUE,
                         !.writes = Preamble,
                         !.flushed = 0,
                         !.opened = Append(@, name),
                         !.ioFailed = @ \/ ~ioOk,
                         !.isRecording = TRUE]
          ELSE [s EXCEPT !.filename = name, !.gpxFile = FALSE,
                         !.openFailed = TRUE]
  ELSE s

\* A writeGPXPoint without the test of gps.location.isValid().
writeGPXPointAnyFix(s, g, hd, ioOk) ==
  IF ~s.isRecording \/ ~s.gpxFile THEN s
  ELSE [s EXCEPT !.writes = @ \o TrackPoint(g, hd),
                 !.ioFailed = @ \/ ~ioOk]

\* A writeGPXPoint without the flush().
writeGPXPointNoFlush(s, g, hd, ioOk) ==
  IF ~s.isRecording \/ ~s.gpxFile THEN s
  ELSE IF ~g.location THEN s
  ELSE [s EXCEPT !.writes = @ \o TrackPoint(g, hd),
                 !.ioFailed = @ \/ ~ioOk]

\* writeGPXPoint of the 115200 sketch.
writeGPXPoint(s, g, hd, ioOk) ==
  IF ~s.isRecording \/ ~s.gpxFile THEN s
  ELSE IF ~g.location THEN s
  ELSE [s EXCEPT !.writes = @ \o TrackPoint(g, hd),
                 !.flushed = Len(s.writes \o TrackPoint(g, hd)),
                 !.ioFailed = @ \/ ~ioOk]

\* writeGPXPoint of the legacy sketch.
writeGPXPointLegacy(s, g, hd, ioOk) ==
  IF g.location /\ s.isRecording /\ s.gpxFile
  THEN [s EXCEPT !.writes = @ \o TrackPoint(g, hd),
                 !.flushed = Len(s.writes \o TrackPoint(g, hd)),
                 !.ioFailed = @ \/ ~ioOk]
  ELSE s

\* A stopRecording that prints no closing line.
stopRecordingNoClosing(s, ioOk) ==
  IF s.isRecording /\ s.gpxFile
  THEN [s EXCEPT !.gpxFile = FALSE, !.isRecording = FALSE]
  ELSE s

\* A stopRecording that does not close the file.
stopRecordingKeepsHandle(s, ioOk) ==
  IF s.isRecording /\ s.gpxFile
  THEN [s EXCEPT !.writes = @ \o Closing,
                 !.ioFailed = @ \/ ~ioOk,
                 !.isRecording = FALSE]
  ELSE s

\* stopRecording of the 115200 sketch.
stopRecording(s, ioOk) ==
  IF s.isRecording /\ s.gpxFile
  THEN [s EXCEPT !.writes = @ \o Closing,
                 !.flushed = Len(s.writes \o Closing),
                 !.ioFailed = @ \/ ~ioOk,
                 !.gpxFile = FALSE,
                 !.isRecording = FALSE]
  ELSE s

\* stopRecording of the legacy sketch.
stopRecordingLegacy(s, ioOk) ==
  IF s.isRecording /\ s.gpxFile
  THEN [s EXCEPT !.writes = @ \o Closing,
                 !.flushed = Len(s.writes \o Closing),
                 !.ioFailed = @ \/ ~ioOk,
                 !.gpxFile = FALSE,
                 !.isRecording = FALSE]
  ELSE s

\* ------------------------------------------------- sentence assembly
\* An assembler value a holds nmeaLine, lastGGA, fixQuality, hdop and what
\* was observed: fed (the bytes read so far) and lines (the completed lines
\* handed to the prefix test, in order).

\* A prefix test that accepts the GGA sentence of any talker.
IsGGAAnyTalker(line) == substring(line, 3, 6) = <<"G","G","A">>

\* The prefix test of the 115200 sketch.
IsGGA(line) == startsWith(line, PrefixGP) \/ startsWith(line, PrefixGN)

\* The prefix test of the legacy sketch.
IsGGALegacy(line) == startsWith(line, PrefixGP)

\* The branch c == '\n' of the while loop's body: the line goes to the
\* prefix test and, when isGga, p (what parseGGA leaves) is stored.
EndLine(a, c, isGga, p) ==
  [a EXCEPT !.fed = Append(@, c),
            !.lines = Append(@, a.nmeaLine),
            !.lastGGA = IF isGga THEN a.nmeaLine ELSE @,
            !.fixQuality = IF isGga THEN p.fixQuality ELSE @,
            !.hdop = IF isGga THEN p.hdop ELSE @,
            !.nmeaLine = <<>>]

\* A line assembly that keeps the '\r'.
MidLineKeepCR(a, c) ==
  [a EXCEPT !.fed = Append(@, c), !.nmeaLine = Append(@, c)]

\* The other branches: a byte that is no '\r' is appended.
MidLine(a, c) ==
  IF c # CR
  THEN [a EXCEPT !.fed = Append(@, c), !.nmeaLine = Append(@, c)]
  ELSE [a EXCEPT !.fed = Append(@, c)]

\* The body of the while loop of the 115200 sketch for one byte c.
DrainByte(a, c) ==
  IF c = LF
  THEN EndLine(a, c, IsGGA(a.nmeaLine), parseGGA(a.nmeaLine))
  ELSE MidLine(a, c)

\* The body of the while loop of the legacy sketch for one byte c.
DrainByteLegacy(a, c) ==
  IF c = LF
  THEN EndLine(a, c, IsGGALegacy(a.nmeaLine),
               parseGGALegacy(a.nmeaLine, a.fixQuality, a.hdop))
  ELSE MidLine(a, c)

\* The body of the while loop of the sketch that runs, for one byte c.
DrainOne(sketch, a, c) ==
  IF sketch = "115200" THEN DrainByte(a, c) ELSE DrainByteLegacy(a, c)

\* while (GPS_Serial.available()): the body for the bytes chunk[lo..hi], in
\* order: the first half of them, then the rest, so that TLC's stack does
\* not hold one frame per byte of a sentence.
RECURSIVE DrainRange(_, _, _, _, _)
\* ... the rest, after the first half left m.  (m.fed holds at least the
\* bytes before lo: the test makes TLC work out m before it goes on.)
DrainRest(sketch, m, chunk, lo, hi) ==
  IF Len(m.fed) >= lo - 1 THEN DrainRange(sketch, m, chunk, lo, hi) ELSE m

DrainRange(sketch, a, chunk, lo, hi) ==
  IF lo > hi THEN a
  ELSE IF lo = hi THEN DrainOne(sketch, a, chunk[lo])
  ELSE DrainRest(sketch,
                 DrainRange(sketch, a, chunk, lo, (lo + hi) \div 2),
                 chunk, ((lo + hi) \div 2) + 1, hi)

Drain(sketch, a, chunk) == DrainRange(sketch, a, chunk, 1, Len(chunk))

\* -------------------------------------------------------------- state
VARIABLES
  variant,      \* which sketch runs
  scenario,     \* what the surroundings do (see the inputs of loop())
  now,          \* millis(), a uint32_t
  gps,          \* TinyGPS++: the validity flags of its fields
  isRecording, gpxFile, filename,
  lastGGA, hdop, fixQuality,
  rPrev, nmeaLine, lastWrite,   \* the static locals of loop()
  \* observations, not program state
  writes, opened, flushed, ioFailed, openFailed,   \* of the SD card
  fed, lines,                   \* of the byte stream (see sentence assembly)
  rKey,         \* the key state the latest loop iteration read
  sampler,      \* of loop()'s writeGPXPoint calls: since, gap, idle, age
  spent,        \* steps so far: short, long, far, debounce, calls
  op            \* the operation that ran last

vars == <<variant, scenario, now, gps, isRecording, gpxFile, filename,
          lastGGA, hdop, fixQuality, rPrev, nmeaLine, lastWrite, writes,
          opened, flushed, ioFailed, openFailed, fed, lines, rKey, sampler,
          spent, op>>

Fix(loc, dat, tim, alt, spd, crs) ==
  [location |-> loc, date |-> dat, time |-> tim,
   altitude |-> alt, speed |-> spd, course |-> crs]

NoFix == Fix(FALSE, FALSE, FALSE, FALSE, FALSE, FALSE)
LocFix == Fix(TRUE, FALSE, FALSE, FALSE, FALSE, FALSE)
FullFix == Fix(TRUE, TRUE, TRUE, TRUE, TRUE, TRUE)
GpsFixes == {NoFix, LocFix, FullFix}

\* The session as an operation finds it: no call has failed yet.
Sess ==
  [isRecording |-> isRecording, gpxFile |-> gpxFile, filename |-> filename,
   writes |-> writes, opened |-> opened, flushed |-> flushed,
   ioFailed |-> FALSE, openFailed |-> FALSE]

Asm ==
  [nmeaLine |-> nmeaLine, lastGGA |-> lastGGA, fixQuality |-> fixQuality,
   hdop |-> hdop, fed |-> fed, lines |-> lines]

SetSess(s) ==
  /\ isRecording' = s.isRecording
  /\ gpxFile' = s.gpxFile
  /\ filename' = s.filename
  /\ writes' = s.writes
  /\ opened' = s.opened
  /\ flushed' = s.flushed
  /\ ioFailed' = s.ioFailed
  /\ openFailed' = s.openFailed

SetAsm(a) ==
  /\ nmeaLine' = a.nmeaLine
  /\ lastGGA' = a.lastGGA
  /\ fixQuality' = a.fixQuality
  /\ hdop' = a.hdop
  /\ fed' = a.fed
  /\ lines' = a.lines

\* The observation of loop()'s writeGPXPoint calls: since is the time since
\* the latest call (-1 before the first, counted up to SampleMs + DelayMs),
\* gap is what since was when the latest call was made, idle is whether a
\* call was ever made while isRecording was false, age is the time since
\* lastWrite was assigned in the session that records (-1 before, counted
\* as since is).
Elapse(sm, dt) ==
  LET cap == SampleMs + DelayMs
      Later(t) == IF t < 0 THEN t ELSE IF t + dt > cap THEN cap ELSE t + dt
  IN [sm EXCEPT !.since = Later(@), !.age = Later(@)]

Called(sm, rec) ==
  [sm EXCEPT !.since = 0, !.gap = sm.since, !.idle = @ \/ ~rec]

\* lastWrite = millis() after the call.
Stamped(sm) == [sm EXCEPT !.age = 0]

\* createGPX set isRecording: lastWrite is what an earlier session left.
Started(sm, was, rec) == IF ~was /\ rec THEN [sm EXCEPT !.age = -1] ELSE sm

\* The state after setup(), in the surroundings sc: setup() of the 115200
\* sketch ends with delay(200), that of the legacy sketch has no delay.
Boot(sc) ==
  /\ variant \in Sketches
  /\ scenario = sc
  /\ now = (IF variant = "115200" THEN Add32(Zero32, SetupDelayMs)
                                  ELSE Zero32)
  /\ gps = NoFix
  /\ isRecording = FALSE
  /\ gpxFile = FALSE
  /\ filename = [dated |-> FALSE, secs |-> 0]
  /\ lastGGA = <<>>
  /\ hdop = FloatZero
  /\ fixQuality = 0
  /\ rPrev = FALSE
  /\ nmeaLine = <<>>
  /\ lastWrite = Zero32
  /\ writes = <<>>
  /\ opened = <<>>
  /\ flushed = 0
  /\ ioFailed = FALSE
  /\ openFailed = FALSE
  /\ fed = <<>>
  /\ lines = <<>>
  /\ rKey = FALSE
  /\ sampler = [since |-> -1, gap |-> -1, idle |-> FALSE, age |-> -1]
  /\ spent = [short |-> 0, long |-> 0, far |-> 0, debounce |-> 0,
              calls |-> 0]
  /\ op = "setup"

Init == Boot("session")

\* ------------------------------------------------- inputs of loop()
\* In the scenarios "session", "calls", "fixes", "gate", "live" and "wrap"
\* the key is used and the receiver sends whole sentences and reports
\* fixes: in "fixes" one line, of either kind, and a fix with any
\* combination of validity flags; in "gate" lines of several kinds and a
\* fix with a location only.  In
\* "sentences" the receiver sends whole lines of several kinds, in "stream"
\* single bytes, and the key is left alone.  The time an iteration takes
\* (delay(10) and what the calls before it take) is an input as the key
\* and the bytes are, millis() being the board's clock: delay(10) or a
\* sampling interval; in "calls", "fixes", "gate" and "live" both; in
\* "wrap" (one line at most, and a fix with a location only) also the time
\* that takes millis() close to 2^32.
Keyed == scenario \notin {"sentences", "stream"}

Keys == IF Keyed THEN BOOLEAN ELSE {FALSE}

AllFixes ==
  {Fix(loc, dat, tim, alt, spd, crs) :
     loc \in BOOLEAN, dat \in BOOLEAN, tim \in BOOLEAN,
     alt \in BOOLEAN, spd \in BOOLEAN, crs \in BOOLEAN}

Fixes ==
  IF scenario = "fixes" THEN AllFixes
  ELSE IF scenario \in {"gate", "wrap"} THEN {LocFix}
  ELSE IF Keyed THEN GpsFixes ELSE {NoFix}

Durations ==
  IF scenario \in {"calls", "fixes", "gate", "live"}
  THEN {Ms32(SampleMs + DelayMs)}
  ELSE IF scenario = "wrap" THEN {Ms32(DelayMs), Ms32(SampleMs), UntilWrap}
  ELSE {Ms32(DelayMs), Ms32(SampleMs)}

\* The duration d in ms, as far as 2^16 - 1.
Within(d) == IF d.hi > 0 THEN TwoTo16 - 1 ELSE d.lo

CountLF(chunk) == Cardinality({i \in 1..Len(chunk) : chunk[i] = LF})

NmeaBytes == {"$", CR, LF}

ByteChunks ==
  {c \in UNION {[1..n -> NmeaBytes] : n \in 0..MaxChunk} :
     Len(fed) + Len(c) <= MaxFeed}

LineChunks(sentences, most) ==
  {c \in {<<>>} \cup {s \o <<CR, LF>> : s \in sentences} :
     Len(lines) + CountLF(c) <= most}

\* Nothing, or a sentence when no line was received yet.
FirstLine(sentences) ==
  {c \in {<<>>} \cup {s \o <<CR, LF>> : s \in sentences} :
     c = <<>> \/ lines = <<>>}

\* What GPS_Serial holds when an iteration reaches the while loop.
Chunks ==
  IF scenario = "stream" THEN ByteChunks
  ELSE IF scenario = "sentences"
       THEN LineChunks({SentenceGGA, SentenceGN, SentenceRMC,
                        SentenceShort, SentenceDense}, MaxSentences)
  ELSE IF scenario = "gate"
       THEN LineChunks({SentenceDense, SentenceGN, SentenceGL, SentenceRMC,
                        SentenceEmpty}, MaxSentences)
  ELSE IF scenario = "fixes"
       THEN FirstLine({SentenceGN, SentenceRMC})
  ELSE IF scenario = "wrap" THEN FirstLine({SentenceGN})
  ELSE LineChunks({SentenceGN}, MaxLines)

\* The state of TinyGPS++ after gps.encode was fed the chunk.
FixesAfter(chunk) == IF chunk = <<>> THEN {gps} ELSE Fixes

\* ------------------------------------------------------------- loop()
\* The record command of the 115200 sketch: the key's rising edge.
KeyCommand(rNow, prev) == rNow /\ ~prev

\* The record command of the legacy sketch: the key's level.
KeyCommandLegacy(rNow) == rNow

\* A sampler's test that passes once the interval has just elapsed.
SampleDueEarly(rec, ms, last) == rec /\ Gt32(Sub32(ms, last), SampleMs - 1)

\* A sampler's test that waits for more than three intervals.
SampleDueLate(rec, ms, last) == rec /\ Gt32(Sub32(ms, last), 3 * SampleMs)

\* The sampler's test of the 115200 sketch.
SampleDue(rec, ms, last) == rec /\ Gt32(Sub32(ms, last), SampleMs)

\* The sampler's test of the legacy sketch.
SampleDueLegacy(rec, ms, last) == Gt32(Sub32(ms, last), SampleMs) /\ rec

\* The steps a behaviour has made once one more iteration is: d is what it
\* lasts, w what its SD write takes, deb whether it debounces.
Spend(d, w, deb) ==
  [spent EXCEPT !.short = @ + (IF d = Ms32(DelayMs) THEN 1 ELSE 0)
                            + (IF w = DelayMs THEN 1 ELSE 0),
                !.long = @ + (IF d.hi = 0 /\ d.lo >= SampleMs THEN 1 ELSE 0),
                !.far = @ + (IF d.hi > 0 THEN 1 ELSE 0),
                !.debounce = @ + (IF deb THEN 1 ELSE 0)]

Affordable(b) ==
  /\ b.short <= MaxShortLoops
  /\ b.long <= MaxPeriods
  /\ b.far <= MaxWaits
  /\ scenario = "wrap" => b.short + b.long + b.far <= MaxWrapLoops
  /\ b.debounce <= MaxDebounces

\* The key handling of the 115200 sketch, given whether the key commands.
KeyStep(s, cmd, g, ms, openOk, ioOk) ==
  IF cmd
  THEN IF ~s.isRecording THEN createGPX(s, g, ms, openOk, ioOk)
                         ELSE stopRecording(s, ioOk)
  ELSE s

\* The key handling of the legacy sketch.
KeyStepLegacy(s, cmd, g, ms, openOk, ioOk) ==
  IF cmd
  THEN IF ~s.isRecording THEN createGPXLegacy(s, g, ms, openOk, ioOk)
                         ELSE stopRecordingLegacy(s, ioOk)
  ELSE s

\* What the sampling block leaves in the variables, given the session s1
\* after the keys (recAt: its isRecording), the assembler a1 and TinyGPS++
\* state g1 after the drain, the time t0 of the sampler's test and whether
\* the test passed (due), and the session s2 after the block.
Finish(s2, a1, g1, t0, due, recAt, sm0, rNow, w, d, deb) ==
  /\ due \/ w = 0
  /\ Affordable(Spend(d, w, deb))
  /\ spent' = Spend(d, w, deb)
  /\ SetSess(s2)
  /\ SetAsm(a1)
  /\ gps' = g1
  /\ rKey' = rNow
  /\ lastWrite' = IF due THEN Add32(t0, w) ELSE lastWrite
  /\ now' = Plus32(IF due THEN Add32(t0, w) ELSE t0, d)
  /\ sampler' = Elapse(IF due THEN Stamped(Elapse(Called(sm0, recAt), w))
                              ELSE Started(sm0, isRecording, recAt),
                       Within(d))
  /\ op' = "loop"
  /\ UNCHANGED <<variant, scenario>>

\* The key handling and the sampling block of the 115200 sketch, around the
\* drain that left a1 and g1.  SD.open and each write succeed or fail
\* (openOk, ioOk); w is the time the trackpoint write takes.
Around115200(a1, g1, rNow, d) ==
  /\ rPrev' = rNow
  /\ \E s1 \in {KeyStep(Sess, KeyCommand(rNow, rPrev), gps, now,
                        openOk, ioOk) :
                  openOk \in BOOLEAN, ioOk \in BOOLEAN} :
       \E due \in {SampleDue(s1.isRecording, now, lastWrite)} :
         \E s2 \in {IF due THEN writeGPXPoint(s1, g1, a1.hdop, ioOk)
                            ELSE s1 : ioOk \in BOOLEAN},
            w \in {0, DelayMs} :
           Finish(s2, a1, g1, now, due, s1.isRecording, sampler,
                  rNow, w, d, FALSE)

\* One iteration of loop() of the 115200 sketch.  rNow: isKeyPressed('r');
\* chunk: the bytes GPS_Serial holds; g1: the state gps.encode leaves;
\* d: the time the iteration takes besides the trackpoint write.
Iterate115200(chunk) ==
  \E a1 \in {Drain("115200", Asm, chunk)} :
    \E rNow \in Keys, g1 \in FixesAfter(chunk), d \in Durations :
      Around115200(a1, g1, rNow, d)

\* loop() of the 115200 sketch, whatever GPS_Serial holds.
Loop115200 ==
  /\ variant = "115200"
  /\ \E chunk \in Chunks : Iterate115200(chunk)

\* The key handling and the sampling block of the legacy sketch: the key's
\* level commands, and a command is followed by delay(300).
AroundLegacy(a1, g1, rNow, d) ==
  /\ UNCHANGED rPrev
  /\ \E cmd \in {KeyCommandLegacy(rNow)} :
       \E s1 \in {KeyStepLegacy(Sess, cmd, gps, now, openOk, ioOk) :
                    openOk \in BOOLEAN, ioOk \in BOOLEAN},
          t0 \in {IF cmd THEN Add32(now, DebounceMs) ELSE now},
          sm0 \in {IF cmd THEN Elapse(sampler, DebounceMs) ELSE sampler} :
         \E due \in {SampleDueLegacy(s1.isRecording, t0, lastWrite)} :
           \E s2 \in {IF due THEN writeGPXPointLegacy(s1, g1, a1.hdop, ioOk)
                              ELSE s1 : ioOk \in BOOLEAN},
              w \in {0, DelayMs} :
             Finish(s2, a1, g1, t0, due, s1.isRecording, sm0,
                    rNow, w, d, cmd)

\* One iteration of loop() of the legacy sketch.
IterateLegacy(chunk) ==
  \E a1 \in {Drain("legacy", Asm, chunk)} :
    \E rNow \in Keys, g1 \in FixesAfter(chunk), d \in Durations :
      AroundLegacy(a1, g1, rNow, d)

\* loop() of the legacy sketch, whatever GPS_Serial holds.
LoopLegacy ==
  /\ variant = "legacy"
  /\ \E chunk \in Chunks : IterateLegacy(chunk)

\* loop() of the sketch that runs.
Loop ==
  \/ Loop115200
  \/ LoopLegacy

\* An iteration of loop() that finds GPS_Serial empty: the while loop's
\* test fails at once and the iteration goes on to the sampling block.
LoopIdle ==
  \/ variant = "115200" /\ Iterate115200(<<>>)
  \/ variant = "legacy" /\ IterateLegacy(<<>>)

\* ------------------------------------------------------- direct calls
\* createGPX, writeGPXPoint and stopRecording called outside loop(), in
\* whatever state the sketch is in.
Callable(name) ==
  /\ spent.calls < MaxCalls
  /\ spent' = [spent EXCEPT !.calls = @ + 1]
  /\ op' = name
  /\ UNCHANGED <<variant, scenario, now, gps, lastGGA, hdop, fixQuality,
                 rPrev, nmeaLine, lastWrite, fed, lines, rKey, sampler>>

OpCreateGPX ==
  /\ Callable("createGPX")
  /\ \E s1 \in {IF variant = "115200"
                THEN createGPX(Sess, gps, now, openOk, ioOk)
                ELSE createGPXLegacy(Sess, gps, now, openOk, ioOk) :
                  openOk \in BOOLEAN, ioOk \in BOOLEAN} :
       SetSess(s1)

OpWriteGPXPoint ==
  /\ Callable("writeGPXPoint")
  /\ \E s1 \in {IF variant = "115200"
                THEN writeGPXPoint(Sess, gps, hdop, ioOk)
                ELSE writeGPXPointLegacy(Sess, gps, hdop, ioOk) :
                  ioOk \in BOOLEAN} :
       SetSess(s1)

OpStopRecording ==
  /\ Callable("stopRecording")
  /\ \E s1 \in {IF variant = "115200"
                THEN stopRecording(Sess, ioOk)
                ELSE stopRecordingLegacy(Sess, ioOk) : ioOk \in BOOLEAN} :
       SetSess(s1)

\* ----------------------------------------------------- specifications
\* The sketch as it runs: loop() over and over.
Next == Loop

Spec == Init /\ [][Next]_vars

\* The sketch with its operations also called directly.
NextOps ==
  \/ Loop
  \/ OpCreateGPX
  \/ OpWriteGPXPoint
  \/ OpStopRecording

InitOps == Boot("calls")

SpecOps == InitOps /\ [][NextOps]_vars

\* The sketch fed single bytes.
InitNmea == Boot("stream")

SpecNmea == InitNmea /\ [][Next]_vars

\* The sketch fed whole lines of several kinds.
InitGGA == Boot("sentences")

SpecGGA == InitGGA /\ [][Next]_vars

\* The sketch with a receiver that reports any combination of valid fields.
InitFix == Boot("fixes")

SpecFix == InitFix /\ [][Next]_vars

\* The sketch with a receiver that sends lines of several kinds.
InitGate == Boot("gate")

SpecGate == InitGate /\ [][Next]_vars

\* The sketch with loop() called again and again: the Arduino core calls
\* loop() for ever, and an iteration never waits for the receiver, so an
\* iteration that finds GPS_Serial empty is made whenever an iteration can
\* be made.
InitLive == Boot("live")

SpecLive == InitLive /\ [][Next]_vars /\ WF_vars(LoopIdle)

\* The sketch with an iteration that lasts until shortly before millis()
\* wraps around.
InitWrap == Boot("wrap")

SpecWrap == InitWrap /\ [][Next]_vars

\* ------------------------------------------------------------- claims
\* The tokens that make the structure of a track file.
Structural ==
  {Preamble[1], Preamble[2], Preamble[3], Closing[1], TrkptOpen[1],
   TrkptClose[1]}

\* The number of <trkpt> elements closed in w.
PointCount(w) == Cardinality({i \in 1..Len(w) : w[i] = TrkptClose[1]})

\* w[i..n] is a sequence of complete <trkpt>...</trkpt> elements.
RECURSIVE IsPoints(_, _, _)
IsPoints(w, i, n) ==
  \/ i > n
  \/ /\ i + Len(TrkptOpen) <= n
     /\ SubSeq(w, i, i + Len(TrkptOpen) - 1) = TrkptOpen
     /\ \E j \in (i + Len(TrkptOpen))..n :
          /\ w[j] = TrkptClose[1]
          /\ \A k \in (i + 1)..(j - 1) : w[k] \notin Structural
          /\ IsPoints(w, j + 1, n)

SessionVars == <<isRecording, gpxFile, filename, writes, opened, flushed>>

\* C1: in the 115200 sketch the writes a session made to its file are the
\* three preamble lines, then complete <trkpt> elements and, once the
\* session was stopped, one closing line after them; while the session
\* records, the closing line is not there yet.
C1_SessionFileShape ==
  (variant = "115200" /\ opened # <<>>) =>
    /\ Len(writes) >= Len(Preamble)
    /\ SubSeq(writes, 1, Len(Preamble)) = Preamble
    /\ IF isRecording
       THEN IsPoints(writes, Len(Preamble) + 1, Len(writes))
       ELSE /\ Len(writes) > Len(Preamble)
            /\ writes[Len(writes)] = Closing[1]
            /\ IsPoints(writes, Len(Preamble) + 1, Len(writes) - 1)

\* C1: a session of the 115200 sketch with two trackpoints was stopped.
C1_Witness ==
  /\ variant = "115200"
  /\ ~isRecording
  /\ PointCount(writes) >= 2
  /\ writes[Len(writes)] = Closing[1]

\* C2: createGPX called while isRecording opens no file, writes nothing and
\* leaves filename, the handle and isRecording as they were.
C2_CreateWhileActiveIsNoOp ==
  [][(op' = "createGPX" /\ isRecording)
       => (UNCHANGED SessionVars /\ ~ioFailed')]_vars

\* C2: createGPX was called on a session that already held a trackpoint.
C2_Witness ==
  /\ op = "createGPX"
  /\ isRecording
  /\ gpxFile
  /\ PointCount(writes) >= 1
  /\ Len(opened) = 1

\* C3: a write that fails while the session records ends the session in
\* that iteration.
C3_WriteFailureEndsSession ==
  [][(isRecording /\ ioFailed') => ~isRecording']_vars

\* The record command of an iteration: rKey' is the key it read.
Commanded == IF variant = "115200" THEN rKey' /\ ~rPrev ELSE rKey'

\* C4: a session stops recording only through stopRecording (called, or
\* commanded in loop()), which appends the closing line once and closes
\* the file; a command given while recording stops the session in that
\* iteration; stopRecording while not recording changes nothing.
C4_StopClosesOnce ==
  [][/\ (isRecording /\ ~isRecording')
          => /\ writes' = writes \o Closing
             /\ ~gpxFile'
             /\ \/ op' = "stopRecording"
                \/ op' = "loop" /\ Commanded
     /\ (isRecording /\ op' = "loop" /\ Commanded) => ~isRecording'
     /\ (isRecording /\ op' = "stopRecording") => ~isRecording'
     /\ (~isRecording /\ op' = "stopRecording")
          => (UNCHANGED SessionVars /\ ~ioFailed')]_vars

\* C4: a session with a trackpoint was stopped by the key in loop().
C4_Witness ==
  /\ op = "loop"
  /\ rKey
  /\ ~isRecording
  /\ ~gpxFile
  /\ PointCount(writes) >= 1
  /\ writes[Len(writes)] = Closing[1]
  /\ Len(opened) = 1

\* C5: two writeGPXPoint calls of loop() are more than 3000 ms apart, and
\* none is made while isRecording is false.
C5_SamplerRate ==
  /\ sampler.gap = -1 \/ sampler.gap > SampleMs
  /\ ~sampler.idle

\* C5: loop() has called writeGPXPoint a second time.
C5_Witness == sampler.gap > SampleMs /\ PointCount(writes) >= 2

\* C6: once an iteration's sampling block has seen the session recording
\* and the location valid, the session holds its first trackpoint.
C6_FirstPointAtFirstValidCheck ==
  (isRecording /\ gps.location) => PointCount(writes) >= 1

\* C7: a writeGPXPoint call made while recording with the location invalid
\* writes nothing and leaves the session recording; an iteration of loop()
\* that keeps recording with the location invalid writes nothing.
C7_InvalidLocationWritesNothing ==
  [][/\ (isRecording /\ ~gps.location /\ op' = "writeGPXPoint")
          => (UNCHANGED SessionVars /\ ~ioFailed')
     /\ (isRecording /\ isRecording' /\ ~gps'.location /\ op' = "loop")
          => (writes' = writes /\ ~ioFailed')]_vars

\* C7: writeGPXPoint was called while recording with the location invalid.
C7_Witness ==
  /\ op = "writeGPXPoint"
  /\ isRecording
  /\ ~gps.location

\* C8: an iteration whose sampling block finds the location invalid leaves
\* lastWrite as it was.
C8_SkippedAttemptKeepsClock ==
  [][(isRecording' /\ ~gps'.location) => lastWrite' = lastWrite]_vars

\* The bytes of s that are no '\r'.
StripCR(s) == SelectSeq(s, LAMBDA c : c # CR)

\* The positions of the line feeds of s, and the k-th of them.
LFAt(s) == {i \in 1..Len(s) : s[i] = LF}

NthLF(s, k) ==
  CHOOSE i \in LFAt(s) : Cardinality({j \in LFAt(s) : j <= i}) = k

\* s split on its line feeds: the parts that a line feed ends, and the rest.
SplitLines(s) ==
  [k \in 1..Cardinality(LFAt(s)) |->
     SubSeq(s, (IF k = 1 THEN 1 ELSE NthLF(s, k - 1) + 1), NthLF(s, k) - 1)]

Remainder(s) ==
  SubSeq(s, (IF LFAt(s) = {} THEN 1
             ELSE NthLF(s, Cardinality(LFAt(s))) + 1), Len(s))

\* C9: the lines handed to the prefix test are the bytes received, without
\* the '\r', split on '\n'; the bytes after the last '\n' are in nmeaLine.
C9_LinesAreSplitInput ==
  /\ lines = SplitLines(StripCR(fed))
  /\ nmeaLine = Remainder(StripCR(fed))

\* C9: two lines were completed, a '\r' was dropped from a line that is not
\* empty, and a byte waits in nmeaLine.
C9_Witness ==
  /\ Len(lines) >= 2
  /\ \E i \in 1..Len(lines) : lines[i] # <<>>
  /\ \E i \in 1..Len(fed) : fed[i] = CR
  /\ nmeaLine # <<>>

\* C10: after the 115200 sketch parsed the sentence
\* $GPGGA,123519,4807.038,N,01131.000,E,1,08,0.9,545.4,M,46.9,M,,*47
\* fixQuality is 1 and hdop is 0.9 (the float nearest to it).
C10_ExampleSentence ==
  (variant = "115200" /\ lastGGA = SentenceGGA)
    => (fixQuality = 1
          /\ hdop = toFloat(<<"0", ".", "9">>))

\* What scanning gga leaves of fixQuality and hdop when both were 0 before.
ScanFromZero(gga) ==
  ScanGGA(gga, NextDelimiter(gga, 0),
          [field |-> 0, lastIndex |-> 0, fixQuality |-> 0, hdop |-> FloatZero],
          HdopField)

\* C11: in the 115200 sketch fixQuality and hdop are what the latest GGA
\* sentence alone gives, whatever was parsed before it: 0 and 0.0 after a
\* sentence with fewer than 6 delimiters.
C11_ValuesOfLatestSentence ==
  (variant = "115200" /\ lastGGA # <<>>) =>
    /\ fixQuality = ScanFromZero(lastGGA).fixQuality
    /\ hdop = ScanFromZero(lastGGA).hdop
    /\ (lastGGA = SentenceShort => (fixQuality = 0 /\ hdop = FloatZero))

\* C11: the short sentence was parsed after one that left 7 and 2.5.
C11_Witness ==
  /\ variant = "115200"
  /\ lines = <<SentenceDense, SentenceShort>>
  /\ lastGGA = SentenceShort
  /\ fixQuality = 0
  /\ hdop = FloatZero

\* C12: in both sketches an iteration that finds the key still held (the
\* iteration before read it pressed too) does not toggle the session.
C12_HeldKeyTogglesOnce ==
  [][(op' = "loop" /\ rKey /\ rKey') => isRecording' = isRecording]_vars

\* C13: the names of the files SD.open opened are all different.
C13_FilenamesNeverRepeat ==
  \A i \in 1..Len(opened) : \A j \in 1..Len(opened) :
    i # j => opened[i] # opened[j]

\* C14: an iteration of loop() in which SD.open failed leaves the session
\* not recording, with no usable handle, and opened and wrote nothing; no
\* step writes anything while the session stays not recording; and the
\* session comes to record only by a start command whose SD.open
\* succeeded, opening one more file.
C14_OpenFailureStaysIdle ==
  [][/\ openFailed'
          => /\ ~isRecording'
             /\ ~gpxFile'
             /\ opened' = opened
             /\ writes' = writes
             /\ ~ioFailed'
     /\ (~isRecording /\ ~isRecording') => writes' = writes
     /\ (~isRecording /\ isRecording')
          => /\ Commanded
             /\ ~openFailed'
             /\ Len(opened') = Len(opened) + 1]_vars

\* C14: SD.open failed on the only start command so far, and more than one
\* sampling interval later nothing is written although the location is valid.
C14_Witness ==
  /\ rKey
  /\ ~isRecording
  /\ opened = <<>>
  /\ writes = <<>>
  /\ gps.location
  /\ spent.long >= 2

\* C15: once a session holds a trackpoint, every write made so far (the
\* preamble and the trackpoints) was followed by a flush.
C15_PointsAreFlushed ==
  (isRecording /\ PointCount(writes) >= 1) => flushed = Len(writes)

\* C15: a recording session holds two flushed trackpoints.
C15_Witness ==
  /\ isRecording
  /\ PointCount(writes) >= 2
  /\ flushed = Len(writes)
  /\ flushed > Len(Preamble)
\* The trackpoint of a fix: each optional element is there or left out.
ExpectedPoint(withStamp, withEle, withSpeed, withCourse, withHdop) ==
  <<"<trkpt lat=\"", "%lat", "\" lon=\"", "%lng", "\">\n">>
    \o (IF withStamp
        THEN <<"<time>", "%04d-%02d-%02dT%02d:%02d:%02dZ", "</time>\n">>
        ELSE <<"<time>", "</time>\n">>)
    \o (IF withEle THEN <<"<ele>", "%meters", "</ele>\n">> ELSE <<>>)
    \o (IF withSpeed THEN <<"<speed>", "%kmph", "</speed>\n">> ELSE <<>>)
    \o (IF withCourse THEN <<"<course>", "%deg", "</course>\n">> ELSE <<>>)
    \o (IF withHdop THEN <<"<hdop>", "%hdop", "</hdop>\n">> ELSE <<>>)
    \o <<"</trkpt>\n">>

\* C16: whatever the validity flags are, an iteration of loop() that
\* writes a trackpoint adds to the session's file exactly the <trkpt>
\* opening, the <time> element (with a timestamp iff date and time are both
\* valid), <ele> iff the altitude is valid, <speed> iff the speed is valid,
\* <course> iff the course is valid, <hdop> iff hdop > 0 and the </trkpt>
\* closing, in this order; a value is printed only inside the element its
\* flag allows.
C16_TrackPointElements ==
  [][(writes' # writes /\ writes' # <<>>
        /\ writes'[Len(writes')] = "</trkpt>\n") =>
       LET point == ExpectedPoint(gps'.date /\ gps'.time, gps'.altitude,
                                  gps'.speed, gps'.course,
                                  hdop'.cls # "nan" /\ ~hdop'.neg
                                    /\ (hdop'.cls = "inf"
                                          \/ hdop'.digits # <<>>))
       IN /\ gps'.location
          /\ writes' = (IF isRecording THEN writes ELSE Preamble) \o point]_vars

\* C16's case: a fix with a valid date and speed but no valid time,
\* altitude or course, and hdop 0, was written as the first trackpoint.
C16_Witness ==
  /\ scenario = "fixes"
  /\ isRecording
  /\ gps = Fix(TRUE, TRUE, FALSE, FALSE, TRUE, FALSE)
  /\ hdop = FloatZero
  /\ writes = Preamble
       \o <<"<trkpt lat=\"", "%lat", "\" lon=\"", "%lng", "\">\n",
            "<time>", "</time>\n",
            "<speed>", "%kmph", "</speed>\n",
            "</trkpt>\n">>

\* The lines a step completed.
NewLines == SubSeq(lines', Len(lines) + 1, Len(lines'))

\* The line begins with "$GPGGA" or "$GNGGA".
HasGGAPrefix(line) ==
  /\ Len(line) >= 6
  /\ SubSeq(line, 1, 6) \in {<<"$","G","P","G","G","A">>,
                             <<"$","G","N","G","G","A">>}

\* C17: in the 115200 sketch a step of loop() that completes no line
\* beginning with "$GPGGA" or "$GNGGA" leaves fixQuality, hdop and lastGGA
\* as they were, whatever else it does (key handling, start, stop,
\* sampling, writing a trackpoint, completing other lines); and when
\* fixQuality or hdop change, a line with such a prefix was completed and
\* the values are those parseGGA leaves for it.
C17_OnlyGGALinesSetQuality ==
  [][variant = "115200" =>
       /\ (\A i \in 1..Len(NewLines) : ~HasGGAPrefix(NewLines[i])) =>
            /\ fixQuality' = fixQuality
            /\ hdop' = hdop
            /\ lastGGA' = lastGGA
       /\ (fixQuality' # fixQuality \/ hdop' # hdop) =>
            \E i \in 1..Len(NewLines) :
              /\ HasGGAPrefix(NewLines[i])
              /\ lastGGA' = NewLines[i]
              /\ fixQuality' = parseGGA(NewLines[i]).fixQuality
              /\ hdop' = parseGGA(NewLines[i]).hdop]_vars

\* C17's case: after a "$GPGGA" line set the values, a "$GLGGA" line was
\* completed while a session was recording trackpoints, and the values
\* are still those of the "$GPGGA" line.
C17_Witness ==
  /\ variant = "115200"
  /\ scenario = "gate"
  /\ lines = <<SentenceDense, SentenceGL>>
  /\ lastGGA = SentenceDense
  /\ fixQuality = 7
  /\ hdop = [cls |-> "num", neg |-> FALSE, digits |-> <<2, 5>>, exp |-> 1]
  /\ isRecording
  /\ PointCount(writes) >= 2

\* C18: loop() is called again and again and every iteration drains what
\* is there and goes on to the sampling step; so, while an iteration is
\* still to come, a session that records with a valid location and has
\* written n trackpoints comes to have written more than n, unless the
\* session is stopped or the location becomes invalid before.
C18_PointsKeepComing ==
  \A n \in 0..MaxPeriods :
    (isRecording /\ gps.location /\ PointCount(writes) = n
       /\ spent.long + 1 <= MaxPeriods)
      ~> (PointCount(writes) > n \/ ~isRecording \/ ~gps.location)

\* C18's case: the receiver sent one line and nothing after it, and the
\* session wrote two trackpoints, one at least in an iteration that had no
\* byte to drain.
C18_Witness ==
  /\ scenario = "live"
  /\ isRecording
  /\ gps.location
  /\ lines = <<SentenceGN>>
  /\ PointCount(writes) >= 2

\* C19: in every reachable state isRecording is true exactly when gpxFile
\* is an open handle, so a session that records can always be stopped.
C19_RecordingIffFileOpen == isRecording <=> gpxFile

\* C19's case: a session was started and stopped, and a later createGPX
\* derived another name and failed to open the file.
C19_Witness ==
  /\ ~isRecording
  /\ ~gpxFile
  /\ Len(opened) = 1
  /\ filename # opened[1]
  /\ writes # <<>>
  /\ writes[Len(writes)] = Closing[1]


====
